---- MODULE Spec2Model ----
\* A model of igv-input-generator.py: the conversion of an IGV XML dump into a
\* collection of NetworkX graphs (xml2graphs), the filter evaluation (matches)
\* and the listing done by main.
\*
\* Representation:
\*   - text (attribute values that the code strips or parses, property text) is
\*     a sequence of one-character strings; <<>> as the text of a property
\*     element stands for ElementTree's None (an element without text);
\*   - the result of element.find(tag) is a record [present, items]: present
\*     is FALSE when find returns None, items are the element's children;
\*   - a MultiDiGraph is [node, edge]: node maps a node id to its attribute
\*     mapping, edge is the set of (source, destination, key) triples;
\*   - a DiGraph (the CFG) is [present, node, edge]; present = FALSE is None.
EXTENDS Integers, Sequences, FiniteSets, TLC

\* ---------------------------------------------------------------- bounds

\* group elements per document
MaxGroups == 2
\* graph elements per document (over all groups)
MaxGraphs == 2
\* node elements per graph
MaxNodes == 2
\* edge elements per graph
MaxEdges == 3
\* block elements per controlFlow element
MaxBlocks == 2

RECURSIVE SeqsOfLen(_, _)
SeqsOfLen(S, n) ==
    IF n = 0 THEN {<<>>}
    ELSE {<<x>> \o s : x \in S, s \in SeqsOfLen(S, n - 1)}

SeqsUpTo(S, n) == UNION {SeqsOfLen(S, k) : k \in 0..n}

\* ------------------------------------------------------- Python built-ins

Whitespace == {" "}

RECURSIVE lstrip(_)
lstrip(s) ==
    IF s # <<>> /\ Head(s) \in Whitespace THEN lstrip(Tail(s)) ELSE s

RECURSIVE rstrip(_)
rstrip(s) ==
    IF s # <<>> /\ s[Len(s)] \in Whitespace
    THEN rstrip(SubSeq(s, 1, Len(s) - 1))
    ELSE s

\* str.strip(): the text without its leading and trailing whitespace.
strip(s) == rstrip(lstrip(s))

Digits == {"0", "1", "2", "3", "4", "5", "6", "7", "8", "9"}

DigitVal(c) ==
    CASE c = "0" -> 0 [] c = "1" -> 1 [] c = "2" -> 2 [] c = "3" -> 3
      [] c = "4" -> 4 [] c = "5" -> 5 [] c = "6" -> 6 [] c = "7" -> 7
      [] c = "8" -> 8 [] c = "9" -> 9

RECURSIVE DigitsVal(_)
DigitsVal(s) ==
    IF s = <<>> THEN 0
    ELSE 10 * DigitsVal(SubSeq(s, 1, Len(s) - 1)) + DigitVal(s[Len(s)])

\* int(text): surrounding whitespace is ignored, an optional sign and decimal
\* digits are read; anything else raises ValueError (exc). Underscores between
\* digits, which int also accepts, are not part of the texts used here.
int(a) ==
    LET t == strip(a)
        signed == t # <<>> /\ t[1] \in {"+", "-"}
        body == IF signed THEN Tail(t) ELSE t
    IN  IF body # <<>> /\ \A i \in 1..Len(body) : body[i] \in Digits
        THEN [exc |-> "none",
              val |-> IF signed /\ t[1] = "-" THEN 0 - DigitsVal(body)
                      ELSE DigitsVal(body)]
        ELSE [exc |-> "ValueError", val |-> 0]

\* ---------------------------------------------------------- XML elements

\* element.find(tag) found an element with these children
Elem(items) == [present |-> TRUE, items |-> items]
\* element.find(tag) returned None
NoElem == [present |-> FALSE, items |-> <<>>]

\* bool(element): an element without children tests false
ElementTruth(e) == e.present /\ e.items # <<>>

\* ------------------------------------------------------------- networkx

\* nx.MultiDiGraph()
MultiDiGraph == [node |-> <<>>, edge |-> {}]

\* attrs.update(more)
update(attrs, more) ==
    [k \in DOMAIN attrs \cup DOMAIN more |->
        IF k \in DOMAIN more THEN more[k] ELSE attrs[k]]

\* G.add_node(n, **attr): a new node gets attr, a known one is updated
\* (attr holds no name that collides with a parameter of add_node)
add_node(g, n, attr) ==
    [g EXCEPT !.node =
        [m \in DOMAIN g.node \cup {n} |->
            IF m = n
            THEN update(IF n \in DOMAIN g.node THEN g.node[n] ELSE <<>>, attr)
            ELSE g.node[m]]]

\* has_edge without the key: any edge from u to v counts
has_edge_any_key(g, u, v, k) == \E e \in g.edge : e[1] = u /\ e[2] = v

\* G.has_edge(u, v, key=k)
has_edge(g, u, v, k) == <<u, v, k>> \in g.edge

\* G.add_edge(u, v, key=k): the end points are added when they are missing
add_edge(g, u, v, k) ==
    [node |-> [m \in DOMAIN g.node \cup {u, v} |->
                  IF m \in DOMAIN g.node THEN g.node[m] ELSE <<>>],
     edge |-> g.edge \cup {<<u, v, k>>}]

\* CFG = None
None == [present |-> FALSE, node |-> <<>>, edge |-> {}]
\* nx.DiGraph()
DiGraph == [present |-> TRUE, node |-> <<>>, edge |-> {}]

\* add_node that leaves a block already in the graph as it is
cfg_add_node_if_new(c, n, attr) ==
    IF n \in DOMAIN c.node THEN c
    ELSE [c EXCEPT !.node = [m \in DOMAIN c.node \cup {n} |->
                                IF m = n THEN attr ELSE c.node[m]]]

\* CFG.add_node(block, **attr)
cfg_add_node(c, n, attr) ==
    [c EXCEPT !.node =
        [m \in DOMAIN c.node \cup {n} |->
            IF m = n
            THEN update(IF n \in DOMAIN c.node THEN c.node[n] ELSE <<>>, attr)
            ELSE c.node[m]]]

\* CFG.add_edge(u, v)
cfg_add_edge(c, u, v) ==
    [c EXCEPT !.node = [m \in DOMAIN c.node \cup {u, v} |->
                           IF m \in DOMAIN c.node THEN c.node[m] ELSE <<>>],
              !.edge = c.edge \cup {<<u, v>>}]

\* --------------------------------------------------- property extraction

\* find_node: the first node of the graph's nodes element with this id
\* (assert False when there is none). The nodes before the one looked up have
\* passed int() in the caller's loop.
RECURSIVE find_node_in(_, _)
find_node_in(nodes, idx) ==
    IF nodes = <<>> THEN [exc |-> "AssertionError", node |-> <<>>]
    ELSE LET i == int(Head(nodes).id)
         IN  IF i.exc # "none" THEN [exc |-> i.exc, node |-> <<>>]
             ELSE IF i.val = idx THEN [exc |-> "none", node |-> Head(nodes)]
             ELSE find_node_in(Tail(nodes), idx)

find_node(graph, idx) ==
    IF ~graph.nodes.present THEN [exc |-> "TypeError", node |-> <<>>]
    ELSE find_node_in(graph.nodes.items, idx)

\* the loop of find_node_properties: ps[p.attrib['name']] = p.text.strip()
RECURSIVE read_properties(_, _)
read_properties(ps_elems, ps) ==
    IF ps_elems = <<>> THEN [exc |-> "none", ps |-> ps]
    ELSE LET p == Head(ps_elems)
         IN  IF p.text = <<>> THEN [exc |-> "AttributeError", ps |-> ps]
             ELSE read_properties(Tail(ps_elems),
                                  update(ps, [k \in {p.name} |-> strip(p.text)]))

\* the mapping with idx left in
pop_none(ps) == ps

\* ps.pop('idx', None)
pop_idx(ps) == [k \in DOMAIN ps \ {"idx"} |-> ps[k]]

find_node_properties(graph, idx) ==
    LET f == find_node(graph, idx)
    IN  IF f.exc # "none" THEN [exc |-> f.exc, ps |-> <<>>]
        ELSE IF ~f.node.properties.present
        THEN [exc |-> "TypeError", ps |-> <<>>]
        ELSE LET r == read_properties(f.node.properties.items, <<>>)
             IN  IF r.exc # "none" THEN [exc |-> r.exc, ps |-> <<>>]
                 ELSE [exc |-> "none", ps |-> pop_idx(r.ps)]

\* ------------------------------------------------------ filter evaluation

BoolV(b) == [kind |-> "bool", b |-> b, n |-> 0, s |-> <<>>]
IntV(n) == [kind |-> "int", b |-> FALSE, n |-> n, s |-> <<>>]
StrV(s) == [kind |-> "str", b |-> FALSE, n |-> 0, s |-> s]
Raise(e) == [kind |-> e, b |-> FALSE, n |-> 0, s |-> <<>>]

Exceptions == {"SyntaxError", "ZeroDivisionError"}

\* The filter expressions of the model and what eval gives for each, with
\* g, method and phase bound as matches binds them.
Filters ==
    {"True", "g == 1", "g", "method(g)", "method(g) == 'foo'",
     "phase(g) == 'Phase2'", "g ==", "1 // g == 1"}

eval(filter, g, m, p) ==
    CASE filter = "True" -> BoolV(TRUE)
      [] filter = "g == 1" -> BoolV(g = 1)
      [] filter = "g" -> IntV(g)
      [] filter = "method(g)" -> StrV(m)
      [] filter = "method(g) == 'foo'" -> BoolV(m = <<"f", "o", "o">>)
      [] filter = "phase(g) == 'Phase2'" -> BoolV(p = "Phase2")
      [] filter = "g ==" -> Raise("SyntaxError")
      [] filter = "1 // g == 1" ->
            IF g = 0 THEN Raise("ZeroDivisionError") ELSE BoolV(g = 1)

matches(graph_tuple, filter) ==
    eval(filter, graph_tuple[1], graph_tuple[2], graph_tuple[3])

\* Python's truth value of what eval returned (the operand of "not")
truth(v) ==
    CASE v.kind = "bool" -> v.b
      [] v.kind = "int" -> v.n # 0
      [] v.kind = "str" -> v.s # <<>>

\* ------------------------------------------------- loading one graph

\* for node in graph.find('nodes'): idx, properties, G.add_node
RECURSIVE add_nodes(_, _, _)
add_nodes(graph, nodes, g) ==
    IF nodes = <<>> THEN [exc |-> "none", G |-> g]
    ELSE LET idx == int(Head(nodes).id)
         IN  IF idx.exc # "none" THEN [exc |-> idx.exc, G |-> g]
             ELSE LET properties == find_node_properties(graph, idx.val)
                  IN  IF properties.exc # "none"
                      THEN [exc |-> properties.exc, G |-> g]
                      ELSE add_nodes(graph, Tail(nodes),
                                     add_node(g, idx.val, properties.ps))

\* the nodes element tested for truth, as the controlFlow element is
load_nodes_strict(graph, g) ==
    IF ~ElementTruth(graph.nodes) THEN [exc |-> "TypeError", G |-> g]
    ELSE add_nodes(graph, graph.nodes.items, g)

\* if not args.list: for node in graph.find('nodes')
load_nodes(graph, g) ==
    IF ~graph.nodes.present THEN [exc |-> "TypeError", G |-> g]
    ELSE add_nodes(graph, graph.nodes.items, g)

\* for edge in graph.find('edges'): src, dst, ind, add unless present
RECURSIVE add_edges(_, _)
add_edges(edges, g) ==
    IF edges = <<>> THEN [exc |-> "none", G |-> g]
    ELSE LET src == int(Head(edges).from)
             dst == int(Head(edges).to)
             ind == int(Head(edges).index)
         IN  IF src.exc # "none" THEN [exc |-> src.exc, G |-> g]
             ELSE IF dst.exc # "none" THEN [exc |-> dst.exc, G |-> g]
             ELSE IF ind.exc # "none" THEN [exc |-> ind.exc, G |-> g]
             ELSE add_edges(Tail(edges),
                            IF ~has_edge(g, src.val, dst.val, ind.val)
                            THEN add_edge(g, src.val, dst.val, ind.val)
                            ELSE g)

load_edges(graph, g) ==
    IF ~graph.edges.present THEN [exc |-> "TypeError", G |-> g]
    ELSE add_edges(graph.edges.items, g)

\* for xmlnode in xmlblock.find('nodes'): nodes.append(int(id))
RECURSIVE block_nodes(_, _)
block_nodes(xmlnodes, nodes) ==
    IF xmlnodes = <<>> THEN [exc |-> "none", nodes |-> nodes]
    ELSE LET node == int(Head(xmlnodes))
         IN  IF node.exc # "none" THEN [exc |-> node.exc, nodes |-> nodes]
             ELSE block_nodes(Tail(xmlnodes), Append(nodes, node.val))

\* for xmlsucc in xmlblock.find('successors'): CFG.add_edge(block, succ)
RECURSIVE add_successors(_, _, _)
add_successors(xmlsuccs, block, c) ==
    IF xmlsuccs = <<>> THEN [exc |-> "none", CFG |-> c]
    ELSE LET succ == int(Head(xmlsuccs))
         IN  IF succ.exc # "none" THEN [exc |-> succ.exc, CFG |-> c]
             ELSE add_successors(Tail(xmlsuccs), block,
                                 cfg_add_edge(c, block, succ.val))

\* for xmlblock in graph.find('controlFlow')
RECURSIVE add_blocks(_, _)
add_blocks(xmlblocks, c) ==
    IF xmlblocks = <<>> THEN [exc |-> "none", CFG |-> c]
    ELSE LET xmlblock == Head(xmlblocks)
             block == int(xmlblock.name)
         IN  IF block.exc # "none" THEN [exc |-> block.exc, CFG |-> c]
             ELSE IF ~xmlblock.nodes.present
             THEN [exc |-> "TypeError", CFG |-> c]
             ELSE LET nodes == block_nodes(xmlblock.nodes.items, <<>>)
                  IN  IF nodes.exc # "none"
                      THEN [exc |-> nodes.exc, CFG |-> c]
                      ELSE IF ~xmlblock.successors.present
                      THEN [exc |-> "TypeError", CFG |-> c]
                      ELSE LET s == add_successors(
                                        xmlblock.successors.items, block.val,
                                        cfg_add_node(c, block.val,
                                                     [nodes |-> nodes.nodes]))
                           IN  IF s.exc # "none" THEN s
                               ELSE add_blocks(Tail(xmlblocks), s.CFG)

\* CFG = None; if graph.find('controlFlow'): CFG = nx.DiGraph(); ...
load_cfg(graph, list_only) ==
    IF ~ElementTruth(graph.controlFlow) THEN [exc |-> "none", CFG |-> None]
    ELSE IF list_only THEN [exc |-> "none", CFG |-> DiGraph]
    ELSE add_blocks(graph.controlFlow.items, DiGraph)

\* the nodes and edges loaded in list-only mode too
after_accept_always_load(list_only) == "nodes"

\* where construction goes once the filter has accepted a graph
after_accept(list_only) == IF list_only THEN "cfg" ELSE "nodes"

\* a rejected graph that takes no id
rejected_id_kept(id) == id

\* the graph_id after a graph the filter rejected
rejected_id(id) == id + 1

\* ------------------------------------------------------- the program

VARIABLES
    xml_root,           \* the parsed document: a sequence of group elements
    filter,             \* args.filter
    list,               \* args.list
    pc,                 \* where the run is: "group", "graph", "nodes", "edges",
                        \* "cfg", "returned", "done", "failed"
    gi,                 \* groups of xml_root entered by the outer loop
    ki,                 \* graphs of the current group the inner loop is done with
    short_group_name,
    graph_id,
    graphs,             \* graph_id -> [names, G, CFG]
    G,                  \* the graph under construction
    ret,                \* what xml2graphs returned: [returned, graphs]
    err,                \* the exception that ended the run: [exc, at]
    table,              \* the rows main lists
    evals,              \* history: the tuples matches was called with, in order
    touched,            \* history: <<graph_id, child>> for each child element read
    prev                \* what the preceding run over this document returned

vars ==
    <<xml_root, filter, list, pc, gi, ki, short_group_name, graph_id, graphs,
      G, ret, err, table, evals, touched, prev>>

NoResult == [returned |-> FALSE, graphs |-> <<>>]
NoError == [exc |-> "none", at |-> "none"]

\* the state in which xml2graphs starts on document d
Start(d, f, l) ==
    /\ xml_root = d
    /\ filter = f
    /\ list = l
    /\ pc = "group"
    /\ gi = 0
    /\ ki = 0
    /\ short_group_name = <<>>
    /\ graph_id = 0
    /\ graphs = <<>>
    /\ G = MultiDiGraph
    /\ ret = NoResult
    /\ err = NoError
    /\ table = <<>>
    /\ evals = <<>>
    /\ touched = {}
    /\ prev = NoResult

Fail(exc, at) ==
    /\ pc' = "failed"
    /\ err' = [exc |-> exc, at |-> at]

\* for group in xml_root: method, group_name, short_group_name, bci
NextGroup ==
    /\ pc = "group"
    /\ gi < Len(xml_root)
    /\ LET method == xml_root[gi + 1].method
           bci == int(method.bci)
       IN  IF bci.exc # "none"
           THEN /\ Fail(bci.exc, "method")
                /\ UNCHANGED <<gi, ki, short_group_name>>
           ELSE /\ gi' = gi + 1
                /\ ki' = 0
                /\ short_group_name' = strip(method.shortName)
                /\ pc' = "graph"
                /\ UNCHANGED err
    /\ UNCHANGED <<xml_root, filter, list, graph_id, graphs, G, ret, table,
                   evals, touched, prev>>

\* the outer loop is exhausted: return graphs
Return ==
    /\ pc = "group"
    /\ gi = Len(xml_root)
    /\ ret' = [returned |-> TRUE, graphs |-> graphs]
    /\ pc' = "returned"
    /\ UNCHANGED <<xml_root, filter, list, gi, ki, short_group_name, graph_id,
                   graphs, G, err, table, evals, touched, prev>>

\* the graph element the inner loop is at
graph == xml_root[gi].graphs[ki + 1]

\* group.findall('graph') is exhausted
EndGroup ==
    /\ pc = "graph"
    /\ ki = Len(xml_root[gi].graphs)
    /\ pc' = "group"
    /\ UNCHANGED <<xml_root, filter, list, gi, ki, short_group_name, graph_id,
                   graphs, G, ret, err, table, evals, touched, prev>>

\* graph_name; if not matches(...): graph_id += 1; continue; G = MultiDiGraph()
EvalFilter ==
    /\ pc = "graph"
    /\ ki < Len(xml_root[gi].graphs)
    /\ LET graph_tuple == <<graph_id, short_group_name, graph.name>>
           v == matches(graph_tuple, filter)
       IN  /\ evals' = Append(evals, graph_tuple)
           /\ IF v.kind \in Exceptions
              THEN /\ Fail(v.kind, "filter")
                   /\ UNCHANGED <<ki, graph_id, G>>
              ELSE IF ~truth(v)
              THEN /\ graph_id' = rejected_id(graph_id)
                   /\ ki' = ki + 1
                   /\ UNCHANGED <<pc, err, G>>
              ELSE /\ G' = MultiDiGraph
                   /\ pc' = after_accept(list)
                   /\ UNCHANGED <<ki, graph_id, err>>
    /\ UNCHANGED <<xml_root, filter, list, gi, short_group_name, graphs, ret,
                   table, touched, prev>>

\* if not args.list: for node in graph.find('nodes'): ...
LoadNodes ==
    /\ pc = "nodes"
    /\ touched' = touched \cup {<<graph_id, "nodes">>}
    /\ LET r == load_nodes(graph, G)
       IN  IF r.exc # "none"
           THEN /\ Fail(r.exc, "nodes")
                /\ UNCHANGED G
           ELSE /\ G' = r.G
                /\ pc' = "edges"
                /\ UNCHANGED err
    /\ UNCHANGED <<xml_root, filter, list, gi, ki, short_group_name, graph_id,
                   graphs, ret, table, evals, prev>>

\* for edge in graph.find('edges'): ...
LoadEdges ==
    /\ pc = "edges"
    /\ touched' = touched \cup {<<graph_id, "edges">>}
    /\ LET r == load_edges(graph, G)
       IN  IF r.exc # "none"
           THEN /\ Fail(r.exc, "edges")
                /\ UNCHANGED G
           ELSE /\ G' = r.G
                /\ pc' = "cfg"
                /\ UNCHANGED err
    /\ UNCHANGED <<xml_root, filter, list, gi, ki, short_group_name, graph_id,
                   graphs, ret, table, evals, prev>>

\* the entry stored under the number of entries so far
record_renumbered(gs, id, names, g, c) ==
    [i \in DOMAIN gs \cup {Cardinality(DOMAIN gs)} |->
        IF i = Cardinality(DOMAIN gs)
        THEN [names |-> names, G |-> g, CFG |-> c]
        ELSE gs[i]]

\* graphs[graph_id] = ((short_group_name, graph_name), G, CFG)
record(gs, id, names, g, c) ==
    [i \in DOMAIN gs \cup {id} |->
        IF i = id THEN [names |-> names, G |-> g, CFG |-> c] ELSE gs[i]]

\* the control-flow graph, then graphs[graph_id] = ...; graph_id += 1
LoadCFG ==
    /\ pc = "cfg"
    /\ touched' = touched \cup {<<graph_id, "controlFlow">>}
    /\ LET r == load_cfg(graph, list)
       IN  IF r.exc # "none"
           THEN /\ Fail(r.exc, "controlFlow")
                /\ UNCHANGED <<graphs, graph_id, ki>>
           ELSE /\ graphs' = record(graphs, graph_id,
                                    <<short_group_name, graph.name>>, G, r.CFG)
                /\ graph_id' = graph_id + 1
                /\ ki' = ki + 1
                /\ pc' = "graph"
                /\ UNCHANGED err
    /\ UNCHANGED <<xml_root, filter, list, gi, short_group_name, G, ret, table,
                   evals, prev>>

\* (graph_id, method, phase) for the items of graphs, which are in id order
RECURSIVE rows(_, _)
rows(gs, n) ==
    IF n = 0 THEN <<>>
    ELSE rows(gs, n - 1) \o
         (IF (n - 1) \in DOMAIN gs
          THEN <<<<n - 1, gs[n - 1].names[1], gs[n - 1].names[2]>>>>
          ELSE <<>>)

\* main after xml2graphs: list the graphs when asked for (--no-verbose)
ListGraphs ==
    /\ pc = "returned"
    /\ table' = IF list THEN rows(ret.graphs, graph_id) ELSE table
    /\ pc' = "done"
    /\ UNCHANGED <<xml_root, filter, list, gi, ki, short_group_name, graph_id,
                   graphs, G, ret, err, evals, touched, prev>>

\* the program is run again on the same file and filter, now with --list
Rerun ==
    /\ pc = "done"
    /\ ~list
    /\ list' = TRUE
    /\ prev' = ret
    /\ pc' = "group"
    /\ gi' = 0
    /\ ki' = 0
    /\ short_group_name' = <<>>
    /\ graph_id' = 0
    /\ graphs' = <<>>
    /\ G' = MultiDiGraph
    /\ ret' = NoResult
    /\ err' = NoError
    /\ table' = <<>>
    /\ evals' = <<>>
    /\ touched' = {}
    /\ UNCHANGED <<xml_root, filter>>

Next ==
    \/ NextGroup
    \/ Return
    \/ EndGroup
    \/ EvalFilter
    \/ LoadNodes
    \/ LoadEdges
    \/ LoadCFG
    \/ ListGraphs
    \/ Rerun

\* ------------------------------------------------------------ documents

Text1 == <<"1">>
Text2 == <<"2">>

P(name, text) == [name |-> name, text |-> text]
Node(id, ps) == [id |-> id, properties |-> Elem(ps)]
Edge(from, to, index) == [from |-> from, to |-> to, index |-> index]
Block(name, nodes, succs) ==
    [name |-> name, nodes |-> Elem(nodes), successors |-> Elem(succs)]
Graph(name, nodes, edges, controlFlow) ==
    [name |-> name, nodes |-> nodes, edges |-> edges,
     controlFlow |-> controlFlow]
Method(shortName, bci) == [shortName |-> shortName, bci |-> bci]

Methods ==
    {Method(<<"f", "o", "o">>, <<"-", "1">>),
     Method(<<" ", "b", "a", "r", " ">>, <<"0">>)}

\* a graph with two nodes, an edge and a control-flow graph; an empty graph
\* without controlFlow; a graph without its nodes and edges elements
GraphElems ==
    {Graph("Phase1",
           Elem(<<Node(Text1, <<P("idx", Text1), P("name", <<"A">>)>>),
                  Node(Text2, <<>>)>>),
           Elem(<<Edge(Text1, Text2, <<"0">>)>>),
           Elem(<<Block(Text1, <<Text1, Text2>>, <<>>)>>)),
     Graph("Phase2", Elem(<<>>), Elem(<<>>), NoElem),
     Graph("Phase2", NoElem, NoElem, Elem(<<Block(Text2, <<>>, <<Text1>>)>>))}

GroupsUpTo(n) ==
    {[method |-> m, graphs |-> gs] :
        m \in Methods, gs \in SeqsUpTo(GraphElems, n)}

\* the documents of at most g groups with at most n graphs in all
RECURSIVE Docs(_, _)
Docs(g, n) ==
    IF g = 0 THEN {<<>>}
    ELSE {<<>>} \cup
         UNION {{<<grp>> \o d : d \in Docs(g - 1, n - Len(grp.graphs))} :
                   grp \in GroupsUpTo(n)}

Init ==
    \E d \in Docs(MaxGroups, MaxGraphs), f \in Filters, l \in BOOLEAN :
        Start(d, f, l)

Spec == Init /\ [][Next]_vars

\* ------------------------------------------------- graph ids and filter

\* the graph elements of a document in document order, each with the
\* shortName attribute of its group's method
RECURSIVE Flat(_)
Flat(d) ==
    IF d = <<>> THEN <<>>
    ELSE [i \in 1..Len(Head(d).graphs) |->
             [shortName |-> Head(d).method.shortName,
              graph |-> Head(d).graphs[i]]] \o Flat(Tail(d))

\* the graph element at 0-based document position i
At(i) == Flat(xml_root)[i + 1]

Positions == 0..(Len(Flat(xml_root)) - 1)

\* the value of the filter on the graph at position i
ValueAt(i) == eval(filter, i, strip(At(i).shortName), At(i).graph.name)

Accepts(i) == ValueAt(i).kind \notin Exceptions /\ truth(ValueAt(i))

\* the (source, destination, slot index) triples an edges element lists
Triples(edges) ==
    {<<int(edges[k].from).val, int(edges[k].to).val, int(edges[k].index).val>> :
        k \in 1..Len(edges)}

\* the node ids a nodes element declares
Declared(nodes) == {int(nodes[k].id).val : k \in 1..Len(nodes)}

\* C1: the returned collection holds exactly the 0-based document positions
\* of the graphs the filter accepts, the entry under i carries the stripped
\* shortName of the i-th graph's group and the i-th graph's name and is built
\* from the i-th graph's nodes and edges, and the counter has advanced once
\* per graph element.
C1_GraphIds ==
    ret.returned =>
        /\ DOMAIN ret.graphs = {i \in Positions : Accepts(i)}
        /\ \A i \in DOMAIN ret.graphs :
              /\ ret.graphs[i].names =
                    <<strip(At(i).shortName), At(i).graph.name>>
              /\ ~list =>
                    /\ Declared(At(i).graph.nodes.items)
                          \subseteq DOMAIN ret.graphs[i].G.node
                    /\ ret.graphs[i].G.edge =
                          Triples(At(i).graph.edges.items)
        /\ graph_id = Len(Flat(xml_root))

\* two groups with one graph each, the second in a group whose shortName is
\* padded, and the filter g == 1: only id 1 is returned
C1_Witness ==
    /\ ret.returned
    /\ filter = "g == 1"
    /\ Len(xml_root) = 2
    /\ Len(xml_root[1].graphs) = 1
    /\ Len(xml_root[2].graphs) = 1
    /\ xml_root[2].method.shortName = <<" ", "b", "a", "r", " ">>
    /\ DOMAIN ret.graphs = {1}
    /\ ret.graphs[1].names = <<<<"b", "a", "r">>, "Phase2">>

\* C4: whenever the filter has evaluated to something that is not a boolean
\* the run has failed and returns no collection.
C4_InvalidFilter ==
    \A j \in 1..Len(evals) :
        matches(evals[j], filter).kind # "bool" =>
            pc = "failed" /\ ~ret.returned

\* C6: a list-only run over a document and filter for which the run with
\* list-only off returned a collection returns one too, with the same ids and
\* name pairs, every Graph without nodes and edges and every ControlFlowGraph
\* absent or without blocks and edges; the rows listed are those of the
\* collection in id order.
C6_ListOnly ==
    (list /\ prev.returned) =>
        /\ pc # "failed"
        /\ ret.returned =>
              /\ DOMAIN ret.graphs = DOMAIN prev.graphs
              /\ \A i \in DOMAIN ret.graphs :
                    /\ ret.graphs[i].names = prev.graphs[i].names
                    /\ DOMAIN ret.graphs[i].G.node = {}
                    /\ ret.graphs[i].G.edge = {}
                    /\ DOMAIN ret.graphs[i].CFG.node = {}
                    /\ ret.graphs[i].CFG.edge = {}
        /\ pc = "done" =>
              /\ Len(table) = Cardinality(DOMAIN ret.graphs)
              /\ \A k \in 1..Len(table) :
                    /\ table[k][1] \in DOMAIN ret.graphs
                    /\ table[k][2] = ret.graphs[table[k][1]].names[1]
                    /\ table[k][3] = ret.graphs[table[k][1]].names[2]
                    /\ \A h \in 1..(k - 1) : table[h][1] < table[k][1]

\* a listing of a document whose full conversion built nodes, edges and a
\* control-flow graph
C6_Witness ==
    /\ list
    /\ pc = "done"
    /\ prev.returned
    /\ \E i \in DOMAIN prev.graphs :
          /\ DOMAIN prev.graphs[i].G.node # {}
          /\ prev.graphs[i].G.edge # {}
          /\ DOMAIN prev.graphs[i].CFG.node # {}
          /\ ret.graphs[i].CFG.present
    /\ Len(table) >= 1

\* C10: the filter is evaluated once per graph element, in document order, on
\* (graph_id, stripped shortName, graph name), before any child element of
\* that graph is read; child elements are read, entries recorded and
\* construction errors raised only for graphs the filter accepted, and a
\* rejected graph only advances the counter.
C10_FilterFirst ==
    /\ Len(evals) <= Len(Flat(xml_root))
    /\ \A j \in 1..Len(evals) :
          evals[j] = <<j - 1, strip(At(j - 1).shortName), At(j - 1).graph.name>>
    /\ ret.returned => Len(evals) = Len(Flat(xml_root))
    /\ pc \in {"group", "graph"} => graph_id = Len(evals)
    /\ pc \in {"nodes", "edges", "cfg"} => graph_id = Len(evals) - 1
    /\ \A t \in touched : t[1] < Len(evals) /\ Accepts(t[1])
    /\ \A i \in DOMAIN graphs : i < Len(evals) /\ Accepts(i)
    /\ (pc = "failed" /\ err.at \in {"nodes", "edges", "controlFlow"}) =>
          graph_id < Len(evals) /\ Accepts(graph_id)

\* a conversion with list-only off returns although a graph the filter
\* rejected lacks its nodes element
C10_Witness ==
    /\ ret.returned
    /\ ~list
    /\ \E i \in Positions : ~Accepts(i) /\ ~At(i).graph.nodes.present
    /\ \E i \in Positions : Accepts(i) /\ <<i, "nodes">> \in touched

\* ------------------------------------------- one graph: nodes and edges

TheMethod == Method(<<"f", "o", "o">>, <<"-", "1">>)

\* a document holding graph element g alone, or behind a group without graphs
DocsOf(g) ==
    {<<[method |-> TheMethod, graphs |-> <<g>>]>>,
     <<[method |-> TheMethod, graphs |-> <<>>],
       [method |-> TheMethod, graphs |-> <<g>>]>>}

NodesElems ==
    {NoElem, Elem(<<>>), Elem(<<Node(Text1, <<>>)>>),
     Elem(<<Node(Text1, <<>>), Node(Text2, <<>>)>>)}

\* edges from node 1 to node 2 (written 2 or 02) or 3, in slot 0 or 1
EdgeElems ==
    {Edge(Text1, t, i) : t \in {Text2, <<"0", "2">>, <<"3">>},
                         i \in {<<"0">>, <<"1">>}}

EdgesElems == {NoElem} \cup {Elem(es) : es \in SeqsUpTo(EdgeElems, MaxEdges)}

InitGraph ==
    \E ns \in NodesElems, es \in EdgesElems, l \in BOOLEAN :
        \E d \in DocsOf(Graph("Phase1", ns, es, NoElem)) :
            Start(d, "True", l)

SpecGraph == InitGraph /\ [][Next]_vars

\* C2: with list-only off, the edges stored for a graph are exactly the
\* distinct (source, destination, slot index) triples its edges element
\* lists: a repeated triple is stored once, triples that differ in the slot
\* index are all stored.
C2_DistinctTriples ==
    \A i \in DOMAIN graphs :
        ~list =>
            graphs[i].G.edge = Triples(At(i).graph.edges.items)

\* edges (1,2,0), (1,2,0), (1,2,1) are stored as two edges
C2_Witness ==
    /\ ret.returned
    /\ ~list
    /\ \E i \in DOMAIN ret.graphs :
          /\ At(i).graph.edges.items =
                <<Edge(Text1, Text2, <<"0">>), Edge(Text1, Text2, <<"0">>),
                  Edge(Text1, Text2, <<"1">>)>>
          /\ ret.graphs[i].G.edge = {<<1, 2, 0>>, <<1, 2, 1>>}

\* C5: a returned collection holds no graph with an edge whose source or
\* destination is not a declared node, nor a node that was not declared.
C5_NoDanglingEdge ==
    ret.returned =>
        \A i \in DOMAIN ret.graphs :
            LET declared == Declared(At(i).graph.nodes.items)
            IN  /\ \A e \in ret.graphs[i].G.edge :
                      e[1] \in declared /\ e[2] \in declared
                /\ DOMAIN ret.graphs[i].G.node \subseteq declared

NoNodesNoEdges(g) == g.nodes.items = <<>> /\ g.edges.items = <<>>

PresentAndEmpty(g) ==
    /\ g.nodes.present
    /\ g.edges.present
    /\ NoNodesNoEdges(g)

\* C7 as stated: an accepted graph without nodes and edges, its nodes and
\* edges elements empty or missing, gives an entry with an empty Graph and
\* never fails the conversion.
C7_EmptyOrMissing ==
    /\ (pc = "failed" /\ err.at \in {"nodes", "edges"}) => ~NoNodesNoEdges(graph)
    /\ \A i \in DOMAIN graphs :
          NoNodesNoEdges(At(i).graph) =>
              DOMAIN graphs[i].G.node = {} /\ graphs[i].G.edge = {}

\* C7 amended: an accepted graph whose nodes and edges elements are present
\* and empty never fails while its nodes and edges are loaded and gives an
\* entry with an empty Graph (as does any accepted graph in list-only mode);
\* with list-only off no entry is recorded for a graph that lacks its nodes
\* or its edges element, the conversion fails there; a group without graph
\* elements gives no entry and no error.
C7_EmptyGraph ==
    /\ (pc = "failed" /\ err.at \in {"nodes", "edges"}) =>
          /\ ~PresentAndEmpty(graph)
          /\ ~list
    /\ \A i \in DOMAIN graphs :
          /\ (PresentAndEmpty(At(i).graph) \/ list) =>
                DOMAIN graphs[i].G.node = {} /\ graphs[i].G.edge = {}
          /\ ~list => At(i).graph.nodes.present /\ At(i).graph.edges.present
    /\ DOMAIN graphs \subseteq Positions
    /\ (pc = "failed" /\ err.at = "method") =>
          int(xml_root[gi + 1].method.bci).exc # "none"

\* behind a group without graphs, a graph whose nodes and edges elements are
\* present and empty has been converted with list-only off
C7_Witness ==
    /\ ret.returned
    /\ ~list
    /\ Len(xml_root) = 2
    /\ xml_root[1].graphs = <<>>
    /\ PresentAndEmpty(At(0).graph)
    /\ 0 \in DOMAIN ret.graphs
    /\ ret.graphs[0].G = MultiDiGraph

\* ------------------------------------------ one graph: the controlFlow

\* a block's nodes element: empty, or out of id order, or one id twice
BlockNodes == {<<>>, <<Text2, Text1>>, <<Text1, Text1>>}

BlockSuccessors == {<<>>, <<Text2>>, <<Text1, Text2>>}

\* the blocks named 1 and 2, and a block without its nodes element
BlockElems ==
    {Block(n, ns, ss) :
        n \in {Text1, Text2}, ns \in BlockNodes, ss \in BlockSuccessors}
    \cup {[name |-> Text1, nodes |-> NoElem, successors |-> Elem(<<>>)]}

ControlFlowElems ==
    {NoElem} \cup {Elem(bs) : bs \in SeqsUpTo(BlockElems, MaxBlocks)}

InitCfg ==
    \E cf \in ControlFlowElems, l \in BOOLEAN :
        \E d \in DocsOf(Graph("Phase1", Elem(<<>>), Elem(<<>>), cf)) :
            Start(d, "True", l)

SpecCfg == InitCfg /\ [][Next]_vars

\* C3: the ControlFlowGraph recorded for a graph is absent exactly when the
\* graph element has no controlFlow child.
C3_AbsentIffNoElement ==
    \A i \in DOMAIN graphs :
        graphs[i].CFG.present <=> At(i).graph.controlFlow.present

DistinctNames(blocks) ==
    \A h, k \in 1..Len(blocks) :
        int(blocks[h].name).val = int(blocks[k].name).val => h = k

\* C8: with list-only off and distinct block names, every block carries the
\* node ids of its nodes element as listed there, whatever the order of the
\* blocks, and every successor element is an edge from its block.
C8_BlockNodes ==
    \A i \in DOMAIN graphs :
        LET blocks == At(i).graph.controlFlow.items
            c == graphs[i].CFG
        IN  (~list /\ c.present /\ DistinctNames(blocks)) =>
                \A k \in 1..Len(blocks) :
                    LET block == int(blocks[k].name).val
                        ids == blocks[k].nodes.items
                        succs == blocks[k].successors.items
                    IN  /\ block \in DOMAIN c.node
                        /\ "nodes" \in DOMAIN c.node[block]
                        /\ c.node[block]["nodes"] =
                              [n \in 1..Len(ids) |-> int(ids[n]).val]
                        /\ \A n \in 1..Len(succs) :
                              <<block, int(succs[n]).val>> \in c.edge

\* block 2 is first met as the successor of block 1 and then declared with
\* the node list 2, 1
C8_Witness ==
    /\ ret.returned
    /\ ~list
    /\ \E i \in DOMAIN ret.graphs :
          /\ At(i).graph.controlFlow.items =
                <<Block(Text1, <<Text1, Text1>>, <<Text2>>),
                  Block(Text2, <<Text2, Text1>>, <<>>)>>
          /\ ret.graphs[i].CFG.node[2]["nodes"] = <<2, 1>>
          /\ ret.graphs[i].CFG.node[1]["nodes"] = <<1, 1>>
          /\ ret.graphs[i].CFG.edge = {<<1, 2>>}

\* ------------------------------------------- one graph: node properties

\* properties blocks: idx alone and with others, padded text, one name
\* twice, a property without text
PropertyBlocks ==
    {<<>>,
     <<P("idx", Text1)>>,
     <<P("idx", Text2), P("name", <<" ", "A", " ">>)>>,
     <<P("name", <<"A">>), P("name", <<"B">>)>>,
     <<P("name", <<" ", "A">>), P("type", <<"B", " ">>)>>,
     <<P("name", <<"A">>), P("type", <<>>)>>}

NodeElems == {Node(id, ps) : id \in {Text1, Text2}, ps \in PropertyBlocks}

InitProps ==
    \E ns \in SeqsUpTo(NodeElems, MaxNodes), l \in BOOLEAN :
        \E d \in DocsOf(Graph("Phase1", Elem(ns),
                              Elem(<<Edge(Text1, Text2, <<"0">>)>>), NoElem)) :
            Start(d, "True", l)

SpecProps == InitProps /\ [][Next]_vars

UniqueIds(nodes) ==
    \A h, k \in 1..Len(nodes) :
        int(nodes[h].id).val = int(nodes[k].id).val => h = k

\* C9 as stated: with unique node ids, a node's stored mapping has no key idx
\* and maps every other property name declared for the node to that
\* property's stripped text.
C9_EveryProperty ==
    \A i \in DOMAIN graphs :
        LET nodes == At(i).graph.nodes.items
        IN  (~list /\ UniqueIds(nodes)) =>
                \A k \in 1..Len(nodes) :
                    LET attrs == graphs[i].G.node[int(nodes[k].id).val]
                        ps == nodes[k].properties.items
                    IN  /\ "idx" \notin DOMAIN attrs
                        /\ \A n \in 1..Len(ps) :
                              ps[n].name # "idx" =>
                                  /\ ps[n].name \in DOMAIN attrs
                                  /\ attrs[ps[n].name] = strip(ps[n].text)

\* C9 amended: with unique node ids, a node's stored mapping has no key idx,
\* its keys are the other property names declared for the node, and each is
\* mapped to the stripped text of the last property declared under that name.
C9_LastProperty ==
    \A i \in DOMAIN graphs :
        LET nodes == At(i).graph.nodes.items
        IN  (~list /\ UniqueIds(nodes)) =>
                \A k \in 1..Len(nodes) :
                    LET attrs == graphs[i].G.node[int(nodes[k].id).val]
                        ps == nodes[k].properties.items
                    IN  /\ "idx" \notin DOMAIN attrs
                        /\ DOMAIN attrs =
                              {ps[n].name : n \in 1..Len(ps)} \ {"idx"}
                        /\ \A n \in 1..Len(ps) :
                              (/\ ps[n].name # "idx"
                               /\ \A h \in (n + 1)..Len(ps) :
                                     ps[h].name # ps[n].name) =>
                                  attrs[ps[n].name] = strip(ps[n].text)

\* two nodes with different ids, one declaring idx and a padded name, the
\* other one name twice
C9_Witness ==
    /\ ret.returned
    /\ ~list
    /\ \E i \in DOMAIN ret.graphs :
          /\ At(i).graph.nodes.items =
                <<Node(Text1, <<P("idx", Text2), P("name", <<" ", "A", " ">>)>>),
                  Node(Text2, <<P("name", <<"A">>), P("name", <<"B">>)>>)>>
          /\ ret.graphs[i].G.node[1] = [name |-> <<"A">>]
          /\ ret.graphs[i].G.node[2] = [name |-> <<"B">>]

====
